---- MODULE Spec2Model ----
(***************************************************************************)
(* The scientific-calculator API of src/api/calculate.py: the registry of  *)
(* functions and constants, the whitelist walk over the parsed tree, the   *)
(* evaluation of a validated tree against the registry, the translation of *)
(* faults, the coercion of the result, and the HTTP handler around it.     *)
(*                                                                         *)
(* Python values are modelled exactly where a finite model can hold them:  *)
(* an int is an integer, a finite float is the rational it stands for, a   *)
(* complex is a pair of rationals.  A computation whose exact result the   *)
(* model cannot hold (an irrational value, a magnitude above NumCap) ends  *)
(* in the marker exception "Unmodelled"; such expressions are kept out of  *)
(* the requests (ExpressionStrings).                                       *)
(***************************************************************************)
EXTENDS Integers, Sequences, FiniteSets, TLC

\* Largest numerator, denominator or integer the model computes exactly.
NumCap == 10000

\* The largest finite float (sys.float_info.max), scaled down so that
\* integers above it still fit the model: float(n) overflows for n above it.
FloatMax == 20

----------------------------------------------------------------------------
(* Exact arithmetic on rationals [n, d] with d > 0, in lowest terms.       *)

AbsInt(x) == IF x < 0 THEN -x ELSE x

SignInt(x) == IF x < 0 THEN -1 ELSE IF x = 0 THEN 0 ELSE 1

RECURSIVE Gcd(_, _)
Gcd(a, b) == IF b = 0 THEN a ELSE Gcd(b, a % b)

FloorDivInt(a, b) ==
  \* Python's a // b on ints, b # 0: rounds toward minus infinity.
  LET q == AbsInt(a) \div AbsInt(b)
      exact == q * AbsInt(b) = AbsInt(a)
  IN IF SignInt(a) * SignInt(b) >= 0 THEN q
     ELSE IF exact THEN -q ELSE -q - 1

ModInt(a, b) == a - b * FloorDivInt(a, b)

QNorm(n, d) ==
  \* d # 0
  LET g == Gcd(AbsInt(n), AbsInt(d))
      s == IF d < 0 THEN -1 ELSE 1
  IN [n |-> (s * n) \div g, d |-> (s * d) \div g]

QInt(n) == [n |-> n, d |-> 1]
QAdd(a, b) == QNorm(a.n * b.d + b.n * a.d, a.d * b.d)
QNeg(a) == [n |-> -a.n, d |-> a.d]
QSub(a, b) == QAdd(a, QNeg(b))
QMul(a, b) == QNorm(a.n * b.n, a.d * b.d)
QDiv(a, b) == QNorm(a.n * b.d, a.d * b.n)
QLess(a, b) == a.n * b.d < b.n * a.d
QIsInt(a) == a.d = 1
QFloor(a) == FloorDivInt(a.n, a.d)
QTrunc(a) == SignInt(a.n) * (AbsInt(a.n) \div a.d)
QFits(a) == AbsInt(a.n) <= NumCap /\ a.d <= NumCap
QOverMax(a) == AbsInt(a.n) > FloatMax * a.d

RECURSIVE ISqrtFrom(_, _)
ISqrtFrom(n, k) == IF k * k >= n THEN k ELSE ISqrtFrom(n, k + 1)

IsSquare(n) == n >= 0 /\ LET r == ISqrtFrom(n, 0) IN r * r = n

----------------------------------------------------------------------------
(* Python values.                                                          *)

IntV(n) == [t |-> "int", n |-> n]
FinQ(q) == [t |-> "float", c |-> "fin", n |-> q.n, d |-> q.d]
Fin(n, d) == FinQ(QNorm(n, d))
Inf == [t |-> "float", c |-> "inf", n |-> 1, d |-> 1]
NegInf == [t |-> "float", c |-> "inf", n |-> -1, d |-> 1]
NaN == [t |-> "float", c |-> "nan", n |-> 0, d |-> 1]
ComplexV(re, im) == [t |-> "complex", re |-> re, im |-> im]
ListV(elts) == [t |-> "list", elts |-> elts]
TupleV(elts) == [t |-> "tuple", elts |-> elts]
FuncV(impl) == [t |-> "function", impl |-> impl]
DictV(items) == [t |-> "dict", items |-> items]
StrV(s) == [t |-> "str", s |-> s]
NoneV == [t |-> "NoneType"]
BoolV(b) == [t |-> "bool", b |-> b]

QOf(v) == [n |-> v.n, d |-> v.d]
IsFinite(v) == v.t = "float" /\ v.c = "fin"
IsZero(v) == v.c = "fin" /\ v.n = 0
FSign(v) == SignInt(v.n)
InfOfSign(s) == IF s < 0 THEN NegInf ELSE Inf

\* The outcome of a computation: a value, or a raised exception.
Ret(v) == [ok |-> TRUE, v |-> v]
Raise(exc, msg) == [ok |-> FALSE, exc |-> exc, msg |-> msg]
Unmodelled == Raise("Unmodelled", <<>>)

----------------------------------------------------------------------------
(* float arithmetic (Objects/floatobject.c as called by eval at line 102).  *)
(* +, -, * and / follow IEEE 754: an overflow gives an infinity, no error. *)

MkFloat(q) ==
  IF QOverMax(q) THEN Ret(InfOfSign(q.n))
  ELSE IF QFits(q) THEN Ret(FinQ(q))
  ELSE Unmodelled

FNeg(a) == IF a.c = "nan" THEN a ELSE [a EXCEPT !.n = -a.n]

FAdd(a, b) ==
  IF a.c = "nan" \/ b.c = "nan" THEN Ret(NaN)
  ELSE IF a.c = "inf" /\ b.c = "inf" THEN (IF a.n = b.n THEN Ret(a) ELSE Ret(NaN))
  ELSE IF a.c = "inf" THEN Ret(a)
  ELSE IF b.c = "inf" THEN Ret(b)
  ELSE MkFloat(QAdd(QOf(a), QOf(b)))

FSub(a, b) == FAdd(a, FNeg(b))

FMul(a, b) ==
  IF a.c = "nan" \/ b.c = "nan" THEN Ret(NaN)
  ELSE IF a.c = "inf" \/ b.c = "inf"
       THEN (IF IsZero(a) \/ IsZero(b) THEN Ret(NaN)
             ELSE Ret(InfOfSign(FSign(a) * FSign(b))))
  ELSE MkFloat(QMul(QOf(a), QOf(b)))

FDiv(a, b) ==
  IF IsZero(b) THEN Raise("ZeroDivisionError", <<"float division by zero">>)
  ELSE IF a.c = "nan" \/ b.c = "nan" THEN Ret(NaN)
  ELSE IF a.c = "inf" /\ b.c = "inf" THEN Ret(NaN)
  ELSE IF a.c = "inf" THEN Ret(InfOfSign(FSign(a) * FSign(b)))
  ELSE IF b.c = "inf" THEN Ret(Fin(0, 1))
  ELSE MkFloat(QDiv(QOf(a), QOf(b)))

FFloorDiv(a, b) ==
  IF IsZero(b) THEN Raise("ZeroDivisionError", <<"float floor division by zero">>)
  ELSE IF a.c = "nan" \/ b.c = "nan" \/ a.c = "inf" THEN Ret(NaN)
  ELSE IF b.c = "inf"
       THEN (IF IsZero(a) \/ FSign(a) = FSign(b) THEN Ret(Fin(0, 1))
             ELSE Ret(Fin(-1, 1)))
  ELSE LET q == QDiv(QOf(a), QOf(b))
       IN IF QOverMax(q) THEN Ret(InfOfSign(q.n))
          ELSE IF QFits(q) THEN Ret(Fin(QFloor(q), 1))
          ELSE Unmodelled

FMod(a, b) ==
  IF IsZero(b) THEN Raise("ZeroDivisionError", <<"float modulo">>)
  ELSE IF a.c = "nan" \/ b.c = "nan" \/ a.c = "inf" THEN Ret(NaN)
  ELSE IF b.c = "inf"
       THEN (IF IsZero(a) \/ FSign(a) = FSign(b) THEN Ret(a) ELSE Ret(b))
  ELSE LET q == QDiv(QOf(a), QOf(b))
       IN IF ~QFits(q) THEN Unmodelled
          ELSE MkFloat(QSub(QOf(a), QMul(QOf(b), QInt(QFloor(q)))))

\* q ** k for a rational q and an integer k >= 0, multiplying step by step:
\* "over" once the magnitude passes FloatMax, "unfit" once the exact value
\* leaves the model.
RECURSIVE QPowFrom(_, _, _)
QPowFrom(acc, q, k) ==
  IF QOverMax(acc) THEN [r |-> "over", q |-> acc]
  ELSE IF ~QFits(acc) THEN [r |-> "unfit", q |-> acc]
  ELSE IF k = 0 THEN [r |-> "ok", q |-> acc]
  ELSE QPowFrom(QMul(acc, q), q, k - 1)

QPow(q, k) ==
  IF q.n = 0 THEN [r |-> "ok", q |-> IF k = 0 THEN QInt(1) ELSE QInt(0)]
  ELSE IF q = QInt(1) THEN [r |-> "ok", q |-> QInt(1)]
  ELSE IF q = QInt(-1) THEN [r |-> "ok", q |-> QInt(IF k % 2 = 0 THEN 1 ELSE -1)]
  ELSE QPowFrom(QInt(1), q, k)

IsOddInt(v) == IsFinite(v) /\ v.d = 1 /\ v.n % 2 = 1

\* float_pow
FPow(a, b) ==
  IF IsZero(b) THEN Ret(Fin(1, 1))
  ELSE IF a.c = "nan" THEN Ret(NaN)
  ELSE IF b.c = "nan" THEN (IF a = Fin(1, 1) THEN Ret(Fin(1, 1)) ELSE Ret(NaN))
  ELSE IF b.c = "inf"
       THEN (IF a = Fin(1, 1) \/ a = Fin(-1, 1) THEN Ret(Fin(1, 1))
             ELSE LET big == a.c = "inf" \/ QLess(QInt(1), QOf([a EXCEPT !.n = AbsInt(a.n)]))
                  IN IF (b.n > 0) = big THEN Ret(Inf) ELSE Ret(Fin(0, 1)))
  ELSE IF a.c = "inf"
       THEN (IF b.n > 0 THEN (IF IsOddInt(b) THEN Ret(a) ELSE Ret(Inf))
             ELSE Ret(Fin(0, 1)))
  ELSE IF IsZero(a)
       THEN (IF b.n < 0
             THEN Raise("ZeroDivisionError",
                        <<"0.0 cannot be raised to a negative power">>)
             ELSE Ret(Fin(0, 1)))
  ELSE IF b.d # 1 THEN Unmodelled   \* an irrational (a < 0: complex) result
  ELSE LET base == IF b.n < 0 THEN QDiv(QInt(1), QOf(a)) ELSE QOf(a)
           p == QPow(base, AbsInt(b.n))
       IN IF p.r = "over"
          THEN Raise("OverflowError", <<"(34, 'Numerical result out of range')">>)
          ELSE IF p.r = "unfit" THEN Unmodelled
          ELSE Ret(FinQ(p.q))

\* float(n) for an int n
IntToFloat(n) ==
  IF AbsInt(n) > FloatMax
  THEN Raise("OverflowError", <<"int too large to convert to float">>)
  ELSE Ret(Fin(n, 1))

MkInt(n) == IF AbsInt(n) > NumCap THEN Unmodelled ELSE Ret(IntV(n))

----------------------------------------------------------------------------
(* int arithmetic (Objects/longobject.c): exact, unbounded.                *)

RECURSIVE FactorialFrom(_, _)
FactorialFrom(acc, k) ==
  \* acc * k!, or -1 once the value leaves the model
  IF acc > NumCap THEN -1
  ELSE IF k <= 1 THEN acc
  ELSE FactorialFrom(acc * k, k - 1)

RECURSIVE IntPowFrom(_, _, _)
IntPowFrom(acc, a, k) ==
  IF AbsInt(acc) > NumCap THEN Unmodelled
  ELSE IF k = 0 THEN Ret(IntV(acc))
  ELSE IntPowFrom(acc * a, a, k - 1)

IntPow(a, k) ==
  \* a ** k, k >= 0
  IF AbsInt(a) <= 1 THEN Ret(IntV(QPow(QInt(a), k).q.n))
  ELSE IntPowFrom(1, a, k)

IntBinOp(op, a, b) ==
  CASE op = "Add" -> MkInt(a + b)
    [] op = "Sub" -> MkInt(a - b)
    [] op = "Mult" -> MkInt(a * b)
    [] op = "Div" ->
         IF b = 0 THEN Raise("ZeroDivisionError", <<"division by zero">>)
         ELSE IF QOverMax(QNorm(a, b))
              THEN Raise("OverflowError",
                         <<"integer division result too large for a float">>)
              ELSE Ret(Fin(a, b))
    [] op = "FloorDiv" ->
         IF b = 0
         THEN Raise("ZeroDivisionError", <<"integer division or modulo by zero">>)
         ELSE Ret(IntV(FloorDivInt(a, b)))
    [] op = "Mod" ->
         IF b = 0
         THEN Raise("ZeroDivisionError", <<"integer modulo by zero">>)
         ELSE Ret(IntV(ModInt(a, b)))
    [] op = "Pow" ->
         IF b >= 0 THEN IntPow(a, b)
         ELSE LET fa == IntToFloat(a)
                  fb == IntToFloat(b)
              IN IF ~fa.ok THEN fa ELSE IF ~fb.ok THEN fb ELSE FPow(fa.v, fb.v)

FloatBinOp(op, a, b) ==
  CASE op = "Add" -> FAdd(a, b)
    [] op = "Sub" -> FSub(a, b)
    [] op = "Mult" -> FMul(a, b)
    [] op = "Div" -> FDiv(a, b)
    [] op = "FloorDiv" -> FFloorDiv(a, b)
    [] op = "Mod" -> FMod(a, b)
    [] op = "Pow" -> FPow(a, b)

----------------------------------------------------------------------------
(* complex arithmetic (Objects/complexobject.c).  A complex value is kept  *)
(* while its parts are finite and stay within FloatMax in numerator and    *)
(* denominator.                                                            *)

QSmall(q) == AbsInt(q.n) <= FloatMax /\ q.d <= FloatMax
MkComplex(re, im) ==
  IF QSmall(re) /\ QSmall(im) THEN Ret(ComplexV(re, im)) ELSE Unmodelled
CZero(c) == c.re.n = 0 /\ c.im.n = 0
COne == ComplexV(QInt(1), QInt(0))
CMulQ(a, b) ==
  [re |-> QSub(QMul(a.re, b.re), QMul(a.im, b.im)),
   im |-> QAdd(QMul(a.re, b.im), QMul(a.im, b.re))]

CDiv(a, b) ==
  LET num == CMulQ(a, [re |-> b.re, im |-> QNeg(b.im)])
      den == QAdd(QMul(b.re, b.re), QMul(b.im, b.im))
  IN IF CZero(b) THEN Raise("ZeroDivisionError", <<"complex division by zero">>)
     ELSE IF ~(QFits(num.re) /\ QFits(num.im) /\ QFits(den)) THEN Unmodelled
     ELSE MkComplex(QDiv(num.re, den), QDiv(num.im, den))

RECURSIVE CPowFrom(_, _, _)
CPowFrom(acc, c, k) ==
  IF ~(QSmall(acc.re) /\ QSmall(acc.im)) THEN Unmodelled
  ELSE IF k = 0 THEN Ret(ComplexV(acc.re, acc.im))
  ELSE CPowFrom(CMulQ(acc, c), c, k - 1)

\* complex_pow: c_powi for a small integer exponent, c_pow otherwise
CPow(a, b) ==
  IF CZero(b) THEN Ret(COne)
  ELSE IF CZero(a)
       THEN (IF b.re.n < 0 \/ b.im.n # 0
             THEN Raise("ZeroDivisionError",
                        <<"0.0 to a negative or complex power">>)
             ELSE Ret(ComplexV(QInt(0), QInt(0))))
  ELSE IF b.im.n # 0 \/ b.re.d # 1 THEN Unmodelled
  ELSE IF b.re.n > 0 THEN CPowFrom(COne, a, b.re.n)
  ELSE LET p == CPowFrom(COne, a, -b.re.n)
       IN IF p.ok THEN CDiv(COne, p.v) ELSE p

ComplexBinOp(op, a, b) ==
  CASE op = "Add" -> MkComplex(QAdd(a.re, b.re), QAdd(a.im, b.im))
    [] op = "Sub" -> MkComplex(QSub(a.re, b.re), QSub(a.im, b.im))
    [] op = "Mult" -> LET m == CMulQ(a, b) IN MkComplex(m.re, m.im)
    [] op = "Div" -> CDiv(a, b)
    [] op = "Pow" -> CPow(a, b)
    [] op \in {"FloorDiv", "Mod"} ->
         Raise("TypeError", <<"unsupported operand type(s): 'complex'">>)

----------------------------------------------------------------------------
(* Operators on values, as the interpreter dispatches them on the types of *)
(* the operands (eval at line 102).                                        *)

IsNumber(v) == v.t \in {"int", "float", "complex"}
IsSeqV(v) == v.t \in {"list", "tuple"}

ToComplex(v) ==
  CASE v.t = "complex" -> Ret(v)
    [] v.t = "float" ->
         IF v.c = "fin" THEN MkComplex(QOf(v), QInt(0)) ELSE Unmodelled
    [] v.t = "int" ->
         LET f == IntToFloat(v.n)
         IN IF f.ok THEN MkComplex(QOf(f.v), QInt(0)) ELSE f

ToFloatOperand(v) == IF v.t = "int" THEN IntToFloat(v.n) ELSE Ret(v)

RECURSIVE RepeatSeq(_, _)
RepeatSeq(s, n) == IF n <= 0 THEN <<>> ELSE s \o RepeatSeq(s, n - 1)

OperandTypeError == Raise("TypeError", <<"unsupported operand type(s)">>)

NumberBinOp(op, l, r) ==
  IF l.t = "int" /\ r.t = "int" THEN IntBinOp(op, l.n, r.n)
  ELSE IF l.t = "complex" \/ r.t = "complex"
       THEN LET cl == ToComplex(l)
                cr == ToComplex(r)
            IN IF op \in {"FloorDiv", "Mod"} THEN OperandTypeError
               ELSE IF ~cl.ok THEN cl
               ELSE IF ~cr.ok THEN cr
               ELSE ComplexBinOp(op, cl.v, cr.v)
       ELSE LET fl == ToFloatOperand(l)
                fr == ToFloatOperand(r)
            IN IF ~fl.ok THEN fl
               ELSE IF ~fr.ok THEN fr
               ELSE FloatBinOp(op, fl.v, fr.v)

SeqBinOp(op, l, r) ==
  IF op = "Add" /\ l.t = r.t
  THEN Ret([t |-> l.t, elts |-> l.elts \o r.elts])
  ELSE IF op = "Mult" /\ IsSeqV(l) /\ r.t = "int"
       THEN (IF Len(l.elts) * r.n > NumCap THEN Unmodelled
             ELSE Ret([t |-> l.t, elts |-> RepeatSeq(l.elts, r.n)]))
  ELSE IF op = "Mult" /\ IsSeqV(r) /\ l.t = "int"
       THEN (IF Len(r.elts) * l.n > NumCap THEN Unmodelled
             ELSE Ret([t |-> r.t, elts |-> RepeatSeq(r.elts, l.n)]))
  ELSE OperandTypeError

BinOpValue(op, l, r) ==
  IF IsNumber(l) /\ IsNumber(r) THEN NumberBinOp(op, l, r)
  ELSE IF IsSeqV(l) \/ IsSeqV(r) THEN SeqBinOp(op, l, r)
  ELSE OperandTypeError

UnaryOpValue(op, v) ==
  CASE v.t = "int" -> MkInt(IF op = "USub" THEN -v.n ELSE v.n)
    [] v.t = "float" -> Ret(IF op = "USub" THEN FNeg(v) ELSE v)
    [] v.t = "complex" ->
         Ret(IF op = "USub" THEN ComplexV(QNeg(v.re), QNeg(v.im)) ELSE v)
    [] OTHER -> Raise("TypeError", <<"bad operand type for unary operator">>)

----------------------------------------------------------------------------
(* The registry: SAFE_FUNCTIONS and SAFE_CONSTANTS after the module has    *)
(* been imported.  A function is the value FuncV(<its implementation>).    *)

InitialFunctions ==
  [name \in {"sin", "cos", "tan", "asin", "acos", "atan", "sinh", "cosh",
             "tanh", "log", "ln", "log10", "sqrt", "cbrt", "exp", "abs",
             "floor", "ceil", "round", "deg", "rad", "fact", "factorial",
             "sin_deg", "cos_deg", "tan_deg", "asin_deg", "acos_deg",
             "atan_deg"} |->
    FuncV(CASE name = "sin" -> "math.sin"
            [] name = "cos" -> "math.cos"
            [] name = "tan" -> "math.tan"
            [] name = "asin" -> "math.asin"
            [] name = "acos" -> "math.acos"
            [] name = "atan" -> "math.atan"
            [] name = "sinh" -> "math.sinh"
            [] name = "cosh" -> "math.cosh"
            [] name = "tanh" -> "math.tanh"
            [] name = "log" -> "math.log"
            [] name = "ln" -> "math.log"
            [] name = "log10" -> "math.log10"
            [] name = "sqrt" -> "math.sqrt"
            [] name = "cbrt" -> "lambda cbrt"
            [] name = "exp" -> "math.exp"
            [] name = "abs" -> "abs"
            [] name = "floor" -> "math.floor"
            [] name = "ceil" -> "math.ceil"
            [] name = "round" -> "round"
            [] name = "deg" -> "math.degrees"
            [] name = "rad" -> "math.radians"
            [] name = "fact" -> "_factorial"
            [] name = "factorial" -> "_factorial"
            [] name = "sin_deg" -> "lambda sin_deg"
            [] name = "cos_deg" -> "lambda cos_deg"
            [] name = "tan_deg" -> "lambda tan_deg"
            [] name = "asin_deg" -> "lambda asin_deg"
            [] name = "acos_deg" -> "lambda acos_deg"
            [] name = "atan_deg" -> "lambda atan_deg")]

\* math.pi, math.e and math.tau to two decimal places.
InitialConstants ==
  [name \in {"pi", "e", "tau"} |->
    CASE name = "pi" -> Fin(314, 100)
      [] name = "e" -> Fin(272, 100)
      [] name = "tau" -> Fin(628, 100)]

----------------------------------------------------------------------------
(* The registry functions the expressions of the model call.  The others   *)
(* have no exact value in the model.                                       *)

ArgTypeError == Raise("TypeError", <<"bad argument">>)

\* PyFloat_AsDouble, as the math functions convert their argument
ToReal(v) ==
  CASE v.t = "int" -> IntToFloat(v.n)
    [] v.t = "float" -> Ret(v)
    [] OTHER -> Raise("TypeError", <<"must be real number">>)

MathSqrt(args) ==
  LET x == ToReal(args[1])
  IN IF Len(args) # 1 THEN ArgTypeError
     ELSE IF ~x.ok THEN x
     ELSE IF x.v.c = "nan" THEN Ret(NaN)
     ELSE IF x.v.n < 0 THEN Raise("ValueError", <<"math domain error">>)
     ELSE IF x.v.c = "inf" THEN Ret(Inf)
     ELSE IF IsSquare(x.v.n) /\ IsSquare(x.v.d)
          THEN Ret(Fin(ISqrtFrom(x.v.n, 0), ISqrtFrom(x.v.d, 0)))
          ELSE Unmodelled

\* int(x)
ToInt(v) ==
  CASE v.t = "int" -> Ret(v)
    [] v.t = "float" ->
         IF v.c = "nan"
         THEN Raise("ValueError", <<"cannot convert float NaN to integer">>)
         ELSE IF v.c = "inf"
              THEN Raise("OverflowError",
                         <<"cannot convert float infinity to integer">>)
              ELSE Ret(IntV(QTrunc(QOf(v))))
    [] OTHER -> Raise("TypeError", <<"int() argument must be a number">>)

_factorial(args) ==
  LET x == args[1]
      i == ToInt(x)
      f == FactorialFrom(1, i.v.n)
  IN IF Len(args) # 1 THEN ArgTypeError
     ELSE IF ~i.ok THEN i
     ELSE IF QInt(i.v.n) # (IF x.t = "int" THEN QInt(x.n) ELSE QOf(x)) \/ x.n < 0
          THEN Raise("ValueError",
                     <<"Factorial is only defined for non-negative integers.">>)
          ELSE IF f < 0 THEN Unmodelled ELSE Ret(IntV(f))

BuiltinAbs(args) ==
  LET x == args[1]
      m == QAdd(QMul(x.re, x.re), QMul(x.im, x.im))
  IN IF Len(args) # 1 THEN ArgTypeError
     ELSE CASE x.t = "int" -> Ret(IntV(AbsInt(x.n)))
            [] x.t = "float" -> Ret([x EXCEPT !.n = AbsInt(x.n)])
            [] x.t = "complex" ->
                 IF IsSquare(m.n) /\ IsSquare(m.d)
                 THEN Ret(Fin(ISqrtFrom(m.n, 0), ISqrtFrom(m.d, 0)))
                 ELSE Unmodelled
            [] OTHER -> ArgTypeError

MathFloorCeil(impl, args) ==
  LET x == args[1]
      i == ToInt(x)
      q == QOf(x)
  IN IF Len(args) # 1 \/ x.t \notin {"int", "float"} THEN ArgTypeError
     ELSE IF ~i.ok THEN i
     ELSE IF x.t = "int" THEN Ret(x)
     ELSE IF impl = "math.floor" THEN Ret(IntV(QFloor(q)))
     ELSE Ret(IntV(-QFloor(QNeg(q))))

\* Calling the registry function whose implementation is impl.
ApplyFunction(impl, args) ==
  CASE impl = "math.sqrt" -> MathSqrt(args)
    [] impl = "_factorial" -> _factorial(args)
    [] impl = "abs" -> BuiltinAbs(args)
    [] impl \in {"math.floor", "math.ceil"} -> MathFloorCeil(impl, args)
    [] OTHER -> Unmodelled

----------------------------------------------------------------------------
(* Syntax trees: the node classes of Python's ast module that the          *)
(* expressions of the model produce.                                       *)

Load == [kind |-> "Load"]
Constant(v) == [kind |-> "Constant", value |-> v]
Name(id) == [kind |-> "Name", id |-> id, ctx |-> Load]
BinOp(l, op, r) ==
  [kind |-> "BinOp", left |-> l, op |-> [kind |-> op], right |-> r]
UnaryOp(op, operand) ==
  [kind |-> "UnaryOp", op |-> [kind |-> op], operand |-> operand]
Call(func, args) ==
  [kind |-> "Call", func |-> func, args |-> args, keywords |-> <<>>]
Attribute(value, attr) ==
  [kind |-> "Attribute", value |-> value, attr |-> attr, ctx |-> Load]
ListNode(elts) == [kind |-> "List", elts |-> elts, ctx |-> Load]
TupleNode(elts) == [kind |-> "Tuple", elts |-> elts, ctx |-> Load]
Expression(body) == [kind |-> "Expression", body |-> body]

----------------------------------------------------------------------------
(* An expression string is a sequence of tokens.  Parse is ast.parse in    *)
(* mode "eval" on the part of Python's grammar these tokens reach.         *)

NumberTokens == {"0", "3", "1.5", "1e400", "1j"}

NameTokens ==
  DOMAIN InitialFunctions \cup DOMAIN InitialConstants
    \cup {"foo", "len", "__builtins__", "real"}

LiteralValue(tok) ==
  CASE tok = "0" -> IntV(0)
    [] tok = "3" -> IntV(3)
    [] tok = "1.5" -> Fin(3, 2)
    [] tok = "1e400" -> Inf
    [] tok = "1j" -> ComplexV(QInt(0), QInt(1))

BinOpKind(tok) ==
  CASE tok = "+" -> "Add"
    [] tok = "-" -> "Sub"
    [] tok = "*" -> "Mult"
    [] tok = "/" -> "Div"
    [] tok = "//" -> "FloorDiv"
    [] tok = "%" -> "Mod"
    [] tok = "**" -> "Pow"
    [] tok = "^" -> "BitXor"

UnaryOpKind(tok) ==
  CASE tok = "-" -> "USub"
    [] tok = "+" -> "UAdd"
    [] tok = "~" -> "Invert"

Tok(toks, pos) == IF pos <= Len(toks) THEN toks[pos] ELSE "EOF"
Parsed(node, pos) == [ok |-> TRUE, node |-> node, pos |-> pos]
SyntaxError == [ok |-> FALSE]

RECURSIVE ParseXorRest(_, _), ParseSumRest(_, _), ParseTermRest(_, _),
          ParseFactor(_, _), ParsePrimaryRest(_, _, _), ParseList(_, _, _, _)

\* left op right, once the right operand has been parsed
Combine(left, optok, right) ==
  IF right.ok
  THEN Parsed(BinOp(left.node, BinOpKind(optok), right.node), right.pos)
  ELSE SyntaxError

\* atom: a number, a name, a parenthesized group or tuple, a list
AtomOfList(open, l) ==
  IF ~l.ok THEN SyntaxError
  ELSE IF open = "[" THEN Parsed(ListNode(l.elts), l.pos)
  ELSE IF Len(l.elts) = 1 /\ ~l.comma THEN Parsed(l.elts[1], l.pos)
  ELSE Parsed(TupleNode(l.elts), l.pos)

ParseAtom(toks, pos) ==
  LET t == Tok(toks, pos)
  IN IF t \in NumberTokens THEN Parsed(Constant(LiteralValue(t)), pos + 1)
     ELSE IF t \in NameTokens THEN Parsed(Name(t), pos + 1)
     ELSE IF t \in {"(", "["}
          THEN AtomOfList(t, ParseList(toks, pos + 1,
                                       IF t = "(" THEN ")" ELSE "]", <<>>))
     ELSE SyntaxError

\* primary: an atom followed by attribute references and calls
CallOf(toks, func, l) ==
  IF l.ok THEN ParsePrimaryRest(toks, Call(func, l.elts), l.pos) ELSE SyntaxError

ParsePrimaryRest(toks, left, pos) ==
  IF Tok(toks, pos) = "."
  THEN (IF Tok(toks, pos + 1) \in NameTokens
        THEN ParsePrimaryRest(toks, Attribute(left, Tok(toks, pos + 1)), pos + 2)
        ELSE SyntaxError)
  ELSE IF Tok(toks, pos) = "("
       THEN CallOf(toks, left, ParseList(toks, pos + 1, ")", <<>>))
  ELSE Parsed(left, pos)

PrimaryOf(toks, a) ==
  IF a.ok THEN ParsePrimaryRest(toks, a.node, a.pos) ELSE SyntaxError

ParsePrimary(toks, pos) == PrimaryOf(toks, ParseAtom(toks, pos))

\* power: primary ['**' factor]
PowerOf(toks, p) ==
  IF ~p.ok THEN SyntaxError
  ELSE IF Tok(toks, p.pos) # "**" THEN p
  ELSE Combine(p, "**", ParseFactor(toks, p.pos + 1))

ParsePower(toks, pos) == PowerOf(toks, ParsePrimary(toks, pos))

\* factor: ('+' | '-' | '~') factor | power
UnaryOf(optok, f) ==
  IF f.ok THEN Parsed(UnaryOp(UnaryOpKind(optok), f.node), f.pos)
  ELSE SyntaxError

ParseFactor(toks, pos) ==
  IF Tok(toks, pos) \in {"+", "-", "~"}
  THEN UnaryOf(Tok(toks, pos), ParseFactor(toks, pos + 1))
  ELSE ParsePower(toks, pos)

\* term: factor (('*' | '/' | '//' | '%') factor)*
ParseTermRest(toks, left) ==
  IF ~left.ok THEN SyntaxError
  ELSE IF Tok(toks, left.pos) \notin {"*", "/", "//", "%"} THEN left
  ELSE ParseTermRest(toks, Combine(left, Tok(toks, left.pos),
                                   ParseFactor(toks, left.pos + 1)))

ParseTerm(toks, pos) == ParseTermRest(toks, ParseFactor(toks, pos))

\* sum: term (('+' | '-') term)*
ParseSumRest(toks, left) ==
  IF ~left.ok THEN SyntaxError
  ELSE IF Tok(toks, left.pos) \notin {"+", "-"} THEN left
  ELSE ParseSumRest(toks, Combine(left, Tok(toks, left.pos),
                                  ParseTerm(toks, left.pos + 1)))

ParseSum(toks, pos) == ParseSumRest(toks, ParseTerm(toks, pos))

\* bitwise_xor: sum ('^' sum)*
ParseXorRest(toks, left) ==
  IF ~left.ok THEN SyntaxError
  ELSE IF Tok(toks, left.pos) # "^" THEN left
  ELSE ParseXorRest(toks, Combine(left, "^", ParseSum(toks, left.pos + 1)))

\* expression (no lambda, conditional, boolean or comparison tokens)
ParseExpression(toks, pos) == ParseXorRest(toks, ParseSum(toks, pos))

\* comma-separated expressions up to the closing token `close`:
\* [ok, elts, pos (after close), comma (a trailing comma was read)]
ListAfter(toks, e, close, acc) ==
  IF ~e.ok THEN SyntaxError
  ELSE IF Tok(toks, e.pos) = close
       THEN [ok |-> TRUE, elts |-> Append(acc, e.node), pos |-> e.pos + 1,
             comma |-> FALSE]
  ELSE IF Tok(toks, e.pos) # "," THEN SyntaxError
  ELSE IF Tok(toks, e.pos + 1) = close
       THEN [ok |-> TRUE, elts |-> Append(acc, e.node), pos |-> e.pos + 2,
             comma |-> TRUE]
  ELSE ParseList(toks, e.pos + 1, close, Append(acc, e.node))

ParseList(toks, pos, close, acc) ==
  IF Tok(toks, pos) = close /\ acc = <<>>
  THEN [ok |-> TRUE, elts |-> acc, pos |-> pos + 1, comma |-> FALSE]
  ELSE ListAfter(toks, ParseExpression(toks, pos), close, acc)

\* ast.parse(expression, mode="eval"): the whole string is one expression,
\* or expressions separated by commas (a tuple).
TopOf(toks, l) ==
  IF ~l.ok THEN SyntaxError
  ELSE IF Len(l.elts) = 1 /\ ~l.comma THEN Parsed(Expression(l.elts[1]), l.pos)
  ELSE Parsed(Expression(TupleNode(l.elts)), l.pos)

Parse(toks) ==
  IF toks = <<>> THEN SyntaxError
  ELSE TopOf(toks, ParseList(toks, 1, "EOF", <<>>))

----------------------------------------------------------------------------
(* The whitelist walk.                                                     *)

ALLOWED_NODES ==
  {"Expression", "BinOp", "UnaryOp", "Call", "Name", "Load", "Constant",
   "Pow", "Add", "Sub", "Mult", "Div", "Mod", "FloorDiv", "USub", "UAdd",
   "Assign", "Store", "arguments", "keyword", "Tuple", "List"}

\* ast.iter_child_nodes: the child nodes in the order of the node's fields
ChildNodes(node) ==
  CASE node.kind = "Expression" -> <<node.body>>
    [] node.kind = "BinOp" -> <<node.left, node.op, node.right>>
    [] node.kind = "UnaryOp" -> <<node.op, node.operand>>
    [] node.kind = "Call" -> <<node.func>> \o node.args \o node.keywords
    [] node.kind = "Name" -> <<node.ctx>>
    [] node.kind = "Attribute" -> <<node.value, node.ctx>>
    [] node.kind \in {"List", "Tuple"} -> node.elts \o <<node.ctx>>
    [] OTHER -> <<>>

\* a walk that looks at the root alone and at none of its children
RootOnly(node) ==
  IF node.kind \notin ALLOWED_NODES THEN <<node.kind>> ELSE <<>>

RECURSIVE _validate_node(_), ValidateChildren(_)

\* <<>> when the walk returns; <<kind>> when it raises
\* EvaluationError("Unsupported expression element: " + kind)
_validate_node(node) ==
  IF node.kind \notin ALLOWED_NODES THEN <<node.kind>>
  ELSE ValidateChildren(ChildNodes(node))

FirstRaised(first, nodes) ==
  IF first # <<>> THEN first ELSE ValidateChildren(nodes)

ValidateChildren(nodes) ==
  IF nodes = <<>> THEN <<>>
  ELSE FirstRaised(_validate_node(Head(nodes)), Tail(nodes))

RECURSIVE NodeKinds(_), NodeKindsOf(_)

\* the kinds of all the nodes of a tree
NodeKinds(node) == {node.kind} \cup NodeKindsOf(ChildNodes(node))

NodeKindsOf(nodes) ==
  IF nodes = <<>> THEN {} ELSE NodeKinds(Head(nodes)) \cup NodeKindsOf(Tail(nodes))

----------------------------------------------------------------------------
(* eval(compiled, safe_globals, safe_locals): the value of a tree, with    *)
(* the registry functions it called and the names it looked up, in order.  *)

safe_globals == [name \in {"__builtins__"} |-> DictV(<<>>)]

\* {**SAFE_FUNCTIONS, **SAFE_CONSTANTS}: a new dict; a later key wins
MergedNamespace(functions, constants) == constants @@ functions

\* functions.update(constants): the first dict itself takes the entries
UpdatedInPlace(functions, constants) == constants @@ functions

\* the dict unpacked first into that display, after the display is built:
\* the display copies its entries and leaves it as it was
UnpackedFirst(functions, constants) == functions

\* LOAD_NAME: the locals, then the globals, then the builtins (here {})
LoadName(id, locals) ==
  IF id \in DOMAIN locals
  THEN [res |-> Ret(locals[id]), from |-> "locals"]
  ELSE IF id \in DOMAIN safe_globals
       THEN [res |-> Ret(safe_globals[id]), from |-> "globals"]
       ELSE [res |-> Raise("NameError", <<"name is not defined">>),
             from |-> "unresolved"]

Evaluated(res, calls, lookups) ==
  [res |-> res, calls |-> calls, lookups |-> lookups]

\* the operand expressions of a node, in the order they are evaluated
OperandNodes(node) ==
  CASE node.kind = "UnaryOp" -> <<node.operand>>
    [] node.kind = "BinOp" -> <<node.left, node.right>>
    [] node.kind \in {"List", "Tuple"} -> node.elts
    [] node.kind = "Call" -> <<node.func>> \o node.args
    [] OTHER -> <<>>

\* the value of a node whose operands evaluated to the values v
NodeValue(node, v) ==
  CASE node.kind = "UnaryOp" ->
         (IF node.op.kind \in {"USub", "UAdd"}
          THEN UnaryOpValue(node.op.kind, v[1]) ELSE Unmodelled)
    [] node.kind = "BinOp" ->
         (IF node.op.kind # "BitXor"
          THEN BinOpValue(node.op.kind, v[1], v[2]) ELSE Unmodelled)
    [] node.kind = "List" -> Ret(ListV(v))
    [] node.kind = "Tuple" -> Ret(TupleV(v))
    [] node.kind = "Call" ->
         (IF v[1].t = "function" THEN ApplyFunction(v[1].impl, Tail(v))
          ELSE Raise("TypeError", <<"object is not callable">>))
    [] OTHER -> Unmodelled

\* the node's own step, once its operands are evaluated (e)
Applied(node, e) ==
  IF ~e.res.ok THEN e
  ELSE Evaluated(NodeValue(node, e.res.v),
                 IF node.kind = "Call" /\ e.res.v[1].t = "function"
                 THEN Append(e.calls, e.res.v[1].impl) ELSE e.calls,
                 e.lookups)

\* the values acc followed by the evaluation e of the next operand
Following(acc, e) ==
  Evaluated(IF e.res.ok THEN Ret(Append(acc.res.v, e.res.v)) ELSE e.res,
            acc.calls \o e.calls, acc.lookups \o e.lookups)

Looked(id, l) == Evaluated(l.res, <<>>, <<[id |-> id, from |-> l.from]>>)

RECURSIVE Eval(_, _), EvalSeq(_, _, _)

\* the values of nodes, left to right, after the values acc; stops at the
\* first operand that raises
EvalSeq(nodes, locals, acc) ==
  IF nodes = <<>> \/ ~acc.res.ok THEN acc
  ELSE EvalSeq(Tail(nodes), locals, Following(acc, Eval(Head(nodes), locals)))

Eval(node, locals) ==
  CASE node.kind = "Constant" -> Evaluated(Ret(node.value), <<>>, <<>>)
    [] node.kind = "Name" -> Looked(node.id, LoadName(node.id, locals))
    [] node.kind = "Expression" -> Eval(node.body, locals)
    [] OTHER -> Applied(node, EvalSeq(OperandNodes(node), locals,
                                      Evaluated(Ret(<<>>), <<>>, <<>>)))

----------------------------------------------------------------------------
(* The expression strings of the model: atoms, the operand forms around an *)
(* atom, one binary operator between an operand and an atom, and every     *)
(* prefix of such a string (which is where the syntax errors come from).   *)

\* No expression string of the model is longer than this many tokens.
MaxTokens == 8

AtomTokens == NumberTokens \cup {"pi", "sqrt", "fact", "foo", "len", "__builtins__"}
CalleeTokens == {"sqrt", "fact", "pi", "foo", "3"}
BinOpTokens == {"+", "-", "*", "/", "//", "%", "**", "^"}

Atoms == {<<a>> : a \in AtomTokens}
SignedAtoms == Atoms \cup {<<"-">> \o a : a \in Atoms}

Operands ==
  SignedAtoms
    \cup {<<"~">> \o a : a \in Atoms}
    \cup {<<"(">> \o a \o <<")">> : a \in SignedAtoms}
    \cup {<<"(">> \o a \o <<",", ")">> : a \in Atoms}
    \cup {<<"[">> \o a \o <<"]">> : a \in Atoms}
    \cup {<<"(", ")">>, <<"[", "]">>}
    \cup {a \o <<".", "real">> : a \in Atoms}
    \cup {<<f, "(", ")">> : f \in CalleeTokens}
    \cup {<<f, "(">> \o a \o <<")">> : f \in CalleeTokens, a \in SignedAtoms}
    \cup {<<f, "(">> \o a \o <<",">> \o b \o <<")">> :
            f \in {"sqrt"}, a \in {<<"3">>}, b \in {<<"3">>, <<>>}}

WholeStrings ==
  Operands
    \cup {x \o <<op>> \o y : x \in Operands, op \in BinOpTokens, y \in Atoms}
    \cup {x \o <<op>> \o y : x \in Atoms, op \in BinOpTokens, y \in SignedAtoms}
    \cup {x \o <<op>> \o y \o <<op2>> \o z :
            x \in {<<"3">>, <<"1.5">>}, op \in {"-", "*", "**"},
            y \in {<<"3">>, <<"1.5">>},
            op2 \in BinOpTokens, z \in {<<"3">>, <<"0">>}}

Prefixes(s) == {SubSeq(s, 1, n) : n \in 0..Len(s)}

Strings == {s \in UNION {Prefixes(w) : w \in WholeStrings} : Len(s) <= MaxTokens}

\* evaluate_expression up to the end of eval, on the registry as imported:
\* TRUE unless the evaluation needs a value the model cannot hold.
Modelled(toks) ==
  LET p == Parse(toks)
  IN p.ok /\ _validate_node(p.node) = <<>> =>
       LET e == Eval(p.node, MergedNamespace(InitialFunctions, InitialConstants))
       IN e.res.ok \/ e.res.exc # "Unmodelled"

ExpressionStrings == {s \in Strings : Modelled(s)}

----------------------------------------------------------------------------
(* Exceptions and the except clauses.                                      *)

EvaluationError(msg) == [exc |-> "EvaluationError", msg |-> msg]
Exc(exc, msg) == [exc |-> exc, msg |-> msg]

\* the base class of an exception class (Exception has none)
BaseClass(cls) ==
  CASE cls \in {"EvaluationError", "JSONDecodeError", "UnicodeDecodeError"} ->
         "ValueError"
    [] cls \in {"ZeroDivisionError", "OverflowError"} -> "ArithmeticError"
    [] OTHER -> "Exception"

\* isinstance(e, cls): the clause `except cls` catches the exception e
Catches(cls, e) ==
  \/ cls = "Exception"
  \/ e.exc = cls
  \/ BaseClass(e.exc) = cls

\* the except clauses of evaluate_expression, in order
TranslateFault(e) ==
  IF Catches("ZeroDivisionError", e) THEN EvaluationError(<<"Division by zero.">>)
  ELSE IF Catches("ValueError", e) THEN EvaluationError(e.msg)
  ELSE IF Catches("OverflowError", e) THEN EvaluationError(<<"Result overflow.">>)
  ELSE EvaluationError(<<"Invalid expression.">>)

\* float(result)
FloatOf(v) ==
  CASE v.t = "int" -> IntToFloat(v.n)
    [] v.t = "float" -> Ret(v)
    [] OTHER -> Raise("TypeError",
                      <<"float() argument must be a string or a real number">>)

\* `not expression or not isinstance(expression, str)`
Falsy(v) ==
  CASE v.t = "str" -> v.s = <<>>
    [] v.t = "int" -> v.n = 0
    [] v.t = "NoneType" -> TRUE
    [] v.t = "bool" -> ~v.b
    [] v.t \in {"list", "tuple"} -> v.elts = <<>>
    [] v.t = "dict" -> DOMAIN v.items = {}
    [] OTHER -> FALSE

\* `not expression` alone, without the isinstance test
NotExpression(v) == Falsy(v)

IsEmptyExpression(v) == Falsy(v) \/ v.t # "str"

----------------------------------------------------------------------------
(* Requests.  A body is what its bytes turn out to be: not UTF-8, UTF-8    *)
(* that is not JSON, or the JSON document `data`.                          *)

Body(utf8, json, data) == [utf8 |-> utf8, json |-> json, data |-> data]
JsonBody(data) == Body(TRUE, TRUE, data)
Request(content_length, body) == [content_length |-> content_length, body |-> body]
WithExpression(v) == JsonBody(DictV([k \in {"expression"} |-> v]))

\* the values of the `expression` field that are not strings
NonStrings ==
  {IntV(0), IntV(3), NoneV, BoolV(TRUE), ListV(<<>>), ListV(<<IntV(3)>>),
   DictV(<<>>), DictV([k \in {"a"} |-> IntV(3)])}

\* the JSON documents without an `expression` field, and those that are no
\* object at all
OtherDocuments ==
  {DictV(<<>>), DictV([k \in {"a"} |-> IntV(3)]), IntV(3), NoneV,
   StrV(<<"3">>), ListV(<<IntV(3)>>)}

PostRequestsOf(strings) ==
  {Request("length", WithExpression(StrV(s))) : s \in strings}
    \cup {Request("length", WithExpression(v)) : v \in NonStrings}
    \cup {Request("length", JsonBody(d)) : d \in OtherDocuments}
    \cup {Request("length", Body(FALSE, FALSE, NoneV)),
          Request("length", Body(TRUE, FALSE, NoneV)),
          Request("absent", WithExpression(StrV(<<"3">>))),
          Request("zero", WithExpression(StrV(<<"3">>))),
          Request("garbage", WithExpression(StrV(<<"3">>)))}

PostRequests == PostRequestsOf(ExpressionStrings)

\* the strings of the concurrent configuration
FewStrings == {<<"pi">>, <<"foo">>, <<"3", "/", "0">>, <<"3", "+">>, <<"~", "3">>}

FewRequests == {Request("length", WithExpression(StrV(s))) : s \in FewStrings}

\* lines 130-133: the expression of a request, or the exception raised
ReadExpression(request) ==
  LET raw == IF request.content_length \in {"absent", "zero"}
             THEN JsonBody(DictV(<<>>))
             ELSE request.body
  IN IF request.content_length = "garbage"
     THEN Raise("ValueError", <<"invalid literal for int()">>)
     ELSE IF ~raw.utf8
          THEN Raise("UnicodeDecodeError", <<"invalid start byte">>)
     ELSE IF ~raw.json THEN Raise("JSONDecodeError", <<"Expecting value">>)
     ELSE IF raw.data.t # "dict"
          THEN Raise("AttributeError", <<"object has no attribute 'get'">>)
     ELSE IF "expression" \in DOMAIN raw.data.items
          THEN Ret(raw.data.items["expression"])
          ELSE Ret(StrV(<<>>))

\* sorted(keys): Python orders strings by code point
NameOrder ==
  <<"__builtins__", "abs", "acos", "acos_deg", "asin", "asin_deg", "atan",
    "atan_deg", "cbrt", "ceil", "cos", "cos_deg", "cosh", "deg", "e", "exp",
    "fact", "factorial", "floor", "foo", "len", "ln", "log", "log10", "pi",
    "rad", "real", "round", "sin", "sin_deg", "sinh", "sqrt", "tan", "tan_deg",
    "tanh", "tau">>

IndexIn(seq, x) == CHOOSE i \in 1..Len(seq) : seq[i] = x

RECURSIVE InsertSorted(_, _)
InsertSorted(x, sorted) ==
  IF sorted = <<>> THEN <<x>>
  ELSE IF IndexIn(NameOrder, x) <= IndexIn(NameOrder, Head(sorted))
       THEN <<x>> \o sorted
       ELSE <<Head(sorted)>> \o InsertSorted(x, Tail(sorted))

RECURSIVE SortedList(_)
\* sorted(d.keys()) for the key set `keys`
SortedList(keys) ==
  IF keys = {} THEN <<>>
  ELSE LET k == CHOOSE k \in keys : TRUE
       IN InsertSorted(k, SortedList(keys \ {k}))

----------------------------------------------------------------------------
(* The server.  Each handler thread serves one request at a time; a POST   *)
(* passes through the statements of do_POST and evaluate_expression.       *)

VARIABLES
  SAFE_FUNCTIONS,   \* the module's dict of functions
  SAFE_CONSTANTS,   \* the module's dict of constants
  th,               \* per handler thread: its position and its locals
  seen              \* the <<expression, outcome>> pairs of finished calls

vars == <<SAFE_FUNCTIONS, SAFE_CONSTANTS, th, seen>>

NoRequest == [content_length |-> "none"]
NoValue == [t |-> "unset"]
NoNode == [kind |-> "unset"]
NoOutcome == [kind |-> "none"]
Returned(v) == [kind |-> "returned", v |-> v]
Raised(e) == [kind |-> "raised", exc |-> e.exc, msg |-> e.msg]

Idle ==
  [pc |-> "idle", method |-> "none", request |-> NoRequest,
   expression |-> NoValue, parsed |-> NoNode, safe_locals |-> <<>>,
   result |-> NoValue, outcome |-> NoOutcome, fault |-> NoOutcome,
   stages |-> <<>>, calls |-> <<>>, lookups |-> <<>>, sent |-> <<>>]

Init1 ==
  /\ SAFE_FUNCTIONS = InitialFunctions
  /\ SAFE_CONSTANTS = InitialConstants
  /\ th = [t \in {1} |-> Idle]
  /\ seen = {}

Init2 ==
  /\ SAFE_FUNCTIONS = InitialFunctions
  /\ SAFE_CONSTANTS = InitialConstants
  /\ th = [t \in {1, 2} |-> Idle]
  /\ seen = {}

Threads == DOMAIN th

\* thread t finishes the statements at its pc: the fields of `changes`
\* (its new pc among them) are updated
Goto(t, changes) ==
  th' = [th EXCEPT ![t] =
           [f \in DOMAIN th[t] |->
              IF f = "stages" THEN Append(th[t].stages, th[t].pc)
              ELSE IF f \in DOMAIN changes THEN changes[f]
              ELSE th[t][f]]]

Fault(e, stage) ==
  [kind |-> "fault", exc |-> e.exc, msg |-> e.msg, stage |-> stage]

\* an exception leaves evaluate_expression
Throw(t, e, stage) ==
  Goto(t, [pc |-> "respond", outcome |-> Raised(e), fault |-> Fault(e, stage)])

Registry == <<SAFE_FUNCTIONS, SAFE_CONSTANTS>>

\* do_POST, lines 130-133: a request arrives and its expression is read
do_POST(t, request) ==
  /\ th[t].pc = "idle"
  /\ LET e == ReadExpression(request)
         started == [th EXCEPT ![t].method = "POST", ![t].request = request]
     IN IF e.ok
        THEN th' = [started EXCEPT ![t].pc = "call", ![t].expression = e.v,
                                   ![t].stages = <<"read">>]
        ELSE th' = [started EXCEPT ![t].pc = "respond",
                                   ![t].stages = <<"read">>,
                                   ![t].outcome = Raised(e),
                                   ![t].fault = Fault(e, "read")]
  /\ UNCHANGED <<Registry, seen>>

\* evaluate_expression, lines 93-94
CheckEmpty(t) ==
  /\ th[t].pc = "call"
  /\ IF IsEmptyExpression(th[t].expression)
     THEN Throw(t, EvaluationError(<<"Expression is empty.">>), "call")
     ELSE Goto(t, [pc |-> "parse"])
  /\ UNCHANGED <<Registry, seen>>

\* line 96: ast.parse
ParseStep(t) ==
  /\ th[t].pc = "parse"
  /\ LET p == Parse(th[t].expression.s)
     IN IF th[t].expression.t # "str"
        THEN Throw(t, Exc("TypeError", <<"expected str">>), "parse")
        ELSE IF p.ok THEN Goto(t, [pc |-> "validate", parsed |-> p.node])
        ELSE Throw(t, Exc("SyntaxError", <<"invalid syntax">>), "parse")
  /\ UNCHANGED <<Registry, seen>>

\* line 97: the whitelist walk
ValidateStep(t) ==
  /\ th[t].pc = "validate"
  /\ LET bad == _validate_node(th[t].parsed)
     IN IF bad = <<>> THEN Goto(t, [pc |-> "compile"])
        ELSE Throw(t, EvaluationError(<<"Unsupported expression element: ">> \o bad),
                   "validate")
  /\ UNCHANGED <<Registry, seen>>

\* lines 98-100: compile, and the namespaces of this call
CompileStep(t) ==
  /\ th[t].pc = "compile"
  /\ Goto(t, [pc |-> "eval",
              safe_locals |-> MergedNamespace(SAFE_FUNCTIONS, SAFE_CONSTANTS)])
  /\ SAFE_FUNCTIONS' = UnpackedFirst(SAFE_FUNCTIONS, SAFE_CONSTANTS)
  /\ UNCHANGED <<SAFE_CONSTANTS, seen>>

\* a namespace kept in one place for all calls: that of the first thread
SharedLocals(t) == th[CHOOSE u \in Threads : \A w \in Threads : u <= w].safe_locals

\* the namespace that eval reads at line 102: the local variable safe_locals
\* of this call of evaluate_expression
CallLocals(t) == th[t].safe_locals

\* lines 101-110: eval, and the translation of its faults
EvalStep(t) ==
  /\ th[t].pc = "eval"
  /\ LET e == Eval(th[t].parsed, CallLocals(t))
     IN IF e.res.ok
        THEN Goto(t, [pc |-> "coerce", result |-> e.res.v,
                      calls |-> e.calls, lookups |-> e.lookups])
        ELSE Goto(t, [pc |-> "respond",
                      outcome |-> Raised(TranslateFault(e.res)),
                      fault |-> Fault(e.res, "eval"),
                      calls |-> e.calls, lookups |-> e.lookups])
  /\ UNCHANGED <<Registry, seen>>

\* lines 112-114: the result is coerced and returned
CoerceStep(t) ==
  /\ th[t].pc = "coerce"
  /\ LET f == FloatOf(th[t].result)
     IN IF th[t].result.t = "complex"
        THEN Throw(t, EvaluationError(<<"Complex results are not supported.">>),
                   "coerce")
        ELSE IF f.ok THEN Goto(t, [pc |-> "respond", outcome |-> Returned(f.v)])
        ELSE Throw(t, Exc(f.exc, f.msg), "coerce")
  /\ UNCHANGED <<Registry, seen>>

Response(status, body) == [status |-> status, body |-> body]

\* do_POST, lines 135-141: _make_response for the outcome of the try body
ResponseFor(outcome) ==
  IF outcome.kind = "returned"
  THEN Response(200, [kind |-> "result", result |-> outcome.v])
  ELSE IF Catches("JSONDecodeError", outcome)
       THEN Response(400, [kind |-> "error", error |-> <<"Invalid JSON payload.">>])
  ELSE IF Catches("EvaluationError", outcome)
       THEN Response(400, [kind |-> "error", error |-> outcome.msg])
  ELSE Response(500, [kind |-> "error", error |-> <<"Internal server error.">>])

\* do_POST, lines 135-148: the response is made and written
Respond(t) ==
  /\ th[t].pc = "respond"
  /\ Goto(t, [pc |-> "done",
              sent |-> Append(th[t].sent, ResponseFor(th[t].outcome))])
  /\ UNCHANGED <<Registry, seen>>

\* do_GET, lines 150-165
do_GET(t) ==
  /\ th[t].pc = "idle"
  /\ th' = [th EXCEPT ![t].pc = "done", ![t].method = "GET",
              ![t].sent =
                <<Response(200,
                    [kind |-> "discovery",
                     available_functions |-> SortedList(DOMAIN SAFE_FUNCTIONS),
                     available_constants |-> SortedList(DOMAIN SAFE_CONSTANTS)])>>]
  /\ UNCHANGED <<Registry, seen>>

\* do_OPTIONS, lines 123-126
do_OPTIONS(t) ==
  /\ th[t].pc = "idle"
  /\ th' = [th EXCEPT ![t].pc = "done", ![t].method = "OPTIONS",
              ![t].sent = <<Response(204, [kind |-> "empty"])>>]
  /\ UNCHANGED <<Registry, seen>>

\* the handler returns; the thread takes the next request
Return(t) ==
  /\ th[t].pc = "done"
  /\ th' = [th EXCEPT ![t] = Idle]
  /\ UNCHANGED Registry

Finish(t) == Return(t) /\ UNCHANGED seen

\* the call of evaluate_expression a thread has finished: its argument and
\* what came out of it
Observation(t) == [expression |-> th[t].expression, outcome |-> th[t].outcome]

FinishObserved(t) ==
  /\ Return(t)
  /\ seen' = IF "call" \in {th[t].stages[i] : i \in DOMAIN th[t].stages}
             THEN seen \cup {Observation(t)}
             ELSE seen

Next1 ==
  \/ \E t \in Threads :
       th[t].pc = "idle" /\ \E request \in PostRequests : do_POST(t, request)
  \/ \E t \in Threads : CheckEmpty(t)
  \/ \E t \in Threads : ParseStep(t)
  \/ \E t \in Threads : ValidateStep(t)
  \/ \E t \in Threads : CompileStep(t)
  \/ \E t \in Threads : EvalStep(t)
  \/ \E t \in Threads : CoerceStep(t)
  \/ \E t \in Threads : Respond(t)
  \/ \E t \in Threads : do_GET(t)
  \/ \E t \in Threads : do_OPTIONS(t)
  \/ \E t \in Threads : Finish(t)

Next2 ==
  \/ \E t \in Threads :
       th[t].pc = "idle" /\ \E request \in FewRequests : do_POST(t, request)
  \/ \E t \in Threads : CheckEmpty(t)
  \/ \E t \in Threads : ParseStep(t)
  \/ \E t \in Threads : ValidateStep(t)
  \/ \E t \in Threads : CompileStep(t)
  \/ \E t \in Threads : EvalStep(t)
  \/ \E t \in Threads : CoerceStep(t)
  \/ \E t \in Threads : Respond(t)
  \/ \E t \in Threads : do_GET(t)
  \/ \E t \in Threads : FinishObserved(t)

\* one handler thread, every request of the model
Spec == Init1 /\ [][Next1]_vars

\* two handler threads interleaved, a few requests
SpecConcurrent == Init2 /\ [][Next2]_vars

----------------------------------------------------------------------------
(* Properties.                                                             *)

\* thread t has executed the statements of `stage` in its current request
Ran(t, stage) == \E i \in DOMAIN th[t].stages : th[t].stages[i] = stage

\* evaluate_expression is over for thread t (or never began: the request
\* could not be read)
Left(t) == th[t].pc \in {"respond", "done"}

IsEvaluationError(outcome) ==
  outcome.kind = "raised" /\ outcome.exc = "EvaluationError"

ErrorResponse(status, msg) == Response(status, [kind |-> "error", error |-> msg])

\* the kinds in a tree that the whitelist does not hold
Disallowed(node) == NodeKinds(node) \ ALLOWED_NODES

\* C1: a non-empty string that is no valid expression makes
\* evaluate_expression fail with EvaluationError, and its POST is answered
\* with status 400.
C1_SyntaxErrorIsEvaluationError ==
  \A t \in Threads :
    (Ran(t, "parse") /\ ~Parse(th[t].expression.s).ok) =>
      /\ IsEvaluationError(th[t].outcome)
      /\ th[t].pc = "done" => th[t].sent[1].status = 400

\* C2: once an expression has parsed and passed the whitelist walk,
\* evaluate_expression returns a float or fails with EvaluationError.
C2_NoRawFailureAfterValidation ==
  \A t \in Threads :
    (Ran(t, "validate") /\ _validate_node(th[t].parsed) = <<>> /\ Left(t)) =>
      \/ th[t].outcome.kind = "returned" /\ th[t].outcome.v.t = "float"
      \/ IsEvaluationError(th[t].outcome)

\* C3: a tree with a node kind outside ALLOWED_NODES ends the call with
\* "Unsupported expression element: <kind>" for a disallowed kind of the
\* tree; the call never compiles or evaluates, calls no registry function
\* and resolves no name.  And a call that did call a function or resolve a
\* name had its whole tree validated before.
C3_DisallowedKindStopsBeforeEval ==
  \A t \in Threads :
    /\ (Ran(t, "validate") /\ Disallowed(th[t].parsed) # {}) =>
         /\ \E k \in Disallowed(th[t].parsed) :
              th[t].outcome =
                Raised(EvaluationError(<<"Unsupported expression element: ", k>>))
         /\ ~Ran(t, "compile") /\ ~Ran(t, "eval") /\ th[t].pc # "eval"
         /\ th[t].calls = <<>> /\ th[t].lookups = <<>>
    /\ (th[t].calls # <<>> \/ th[t].lookups # <<>>) =>
         Ran(t, "validate") /\ Disallowed(th[t].parsed) = {}

\* a request for `fact(...) ^ 3`-like input has been refused: the disallowed
\* operator sits below the root, beside a call of a registry function
C3_Witness ==
  \E t \in Threads :
    /\ th[t].pc = "done" /\ Ran(t, "validate")
    /\ th[t].parsed.body.kind = "BinOp"
    /\ th[t].parsed.body.op.kind = "BitXor"
    /\ th[t].parsed.body.left.kind = "Call"
    /\ th[t].outcome.msg = <<"Unsupported expression element: ", "BitXor">>
    /\ th[t].sent = <<ErrorResponse(400, th[t].outcome.msg)>>

\* C4: a fault of the evaluation is translated by its kind: division by
\* zero, a registry function's ValueError (its own message), overflow
\* wherever the result is computed (eval or the coercion), any other fault
\* of eval.
C4_FaultsTranslatedByKind ==
  \A t \in Threads :
    (th[t].fault.kind = "fault" /\ th[t].fault.stage \in {"eval", "coerce"}) =>
      LET f == th[t].fault
          msg == CASE f.exc = "ZeroDivisionError" -> <<"Division by zero.">>
                   [] f.exc = "ValueError" -> f.msg
                   [] f.exc = "OverflowError" -> <<"Result overflow.">>
                   [] OTHER -> <<"Invalid expression.">>
      IN (f.stage = "eval" \/ f.exc = "OverflowError") =>
           th[t].outcome = Raised(EvaluationError(msg))

\* C5: every returned value is a finite float, and a complex computed value
\* fails with "Complex results are not supported.".
C5_ReturnedValueIsFinite ==
  \A t \in Threads :
    /\ th[t].outcome.kind = "returned" => IsFinite(th[t].outcome.v)
    /\ (Ran(t, "coerce") /\ th[t].result.t = "complex") =>
         th[t].outcome =
           Raised(EvaluationError(<<"Complex results are not supported.">>))

\* C6: a name resolves only to an entry of the merged registry; a name that
\* is no registry key resolves to nothing and the call fails with
\* EvaluationError.
C6_NamesResolveOnlyInRegistry ==
  \A t \in Threads :
    \A i \in DOMAIN th[t].lookups :
      LET l == th[t].lookups[i]
          key == l.id \in DOMAIN SAFE_FUNCTIONS \cup DOMAIN SAFE_CONSTANTS
      IN /\ key => l.from = "locals"
         /\ ~key => l.from = "unresolved"
         /\ (~key /\ Left(t)) => IsEvaluationError(th[t].outcome)

\* the body of a request as do_POST reads it is not valid JSON
InvalidJson(request) ==
  /\ request.content_length = "length"
  /\ ~(request.body.utf8 /\ request.body.json)

\* C7: every POST gets exactly one response: 200 with the result, 400 with
\* the core's message, 400 "Invalid JSON payload." for a body that is not
\* valid JSON, 500 "Internal server error." for any other failure.
C7_ResponseFixedByOutcome ==
  \A t \in Threads :
    (th[t].method = "POST" /\ th[t].pc = "done") =>
      th[t].sent =
        << IF th[t].outcome.kind = "returned"
           THEN Response(200, [kind |-> "result", result |-> th[t].outcome.v])
           ELSE IF IsEvaluationError(th[t].outcome)
                THEN ErrorResponse(400, th[t].outcome.msg)
           ELSE IF InvalidJson(th[t].request)
                THEN ErrorResponse(400, <<"Invalid JSON payload.">>)
           ELSE ErrorResponse(500, <<"Internal server error.">>) >>

\* the JSON object of the request has no `expression` field
NoExpressionField(request) ==
  \/ request.content_length \in {"absent", "zero"}
  \/ /\ request.content_length = "length"
     /\ request.body.utf8 /\ request.body.json
     /\ request.body.data.t = "dict"
     /\ "expression" \notin DOMAIN request.body.data.items

\* C8: an expression that is the empty string or no string fails with
\* "Expression is empty." before anything is parsed, and the POST is
\* answered 400 with that message; a JSON object without `expression` is
\* treated as the empty string.
C8_EmptyOrNonStringIsRejected ==
  \A t \in Threads :
    /\ (th[t].method = "POST" /\ NoExpressionField(th[t].request)) =>
         th[t].expression = StrV(<<>>)
    /\ (Ran(t, "call")
          /\ (th[t].expression.t # "str" \/ th[t].expression = StrV(<<>>))) =>
         /\ th[t].outcome = Raised(EvaluationError(<<"Expression is empty.">>))
         /\ ~Ran(t, "parse") /\ th[t].pc # "parse" /\ th[t].parsed = NoNode
         /\ th[t].pc = "done" =>
              th[t].sent = <<ErrorResponse(400, <<"Expression is empty.">>)>>

\* the number 3 was sent as the expression and answered
C8_Witness ==
  \E t \in Threads :
    /\ th[t].pc = "done" /\ Ran(t, "call")
    /\ th[t].expression = IntV(3)
    /\ th[t].sent = <<ErrorResponse(400, <<"Expression is empty.">>)>>

\* seq lists the keys of dict d in increasing order, each once
ListsSorted(seq, d) ==
  /\ {seq[i] : i \in DOMAIN seq} = DOMAIN d
  /\ \A i, j \in DOMAIN seq :
       i < j => IndexIn(NameOrder, seq[i]) < IndexIn(NameOrder, seq[j])

\* C9: the registry is what it was after initialization, whatever requests
\* were served, and a discovery response lists exactly its key sets, sorted
\* and without duplicates.
C9_RegistryIsReadOnly ==
  /\ SAFE_FUNCTIONS = InitialFunctions
  /\ SAFE_CONSTANTS = InitialConstants
  /\ \A t \in Threads :
       (th[t].method = "GET" /\ th[t].pc = "done") =>
         /\ Len(th[t].sent) = 1 /\ th[t].sent[1].status = 200
         /\ ListsSorted(th[t].sent[1].body.available_functions, InitialFunctions)
         /\ ListsSorted(th[t].sent[1].body.available_constants, InitialConstants)

\* an evaluation that built its namespace and called a registry function is
\* over
C9_Witness ==
  \E t \in Threads :
    /\ th[t].method = "POST" /\ th[t].pc = "done"
    /\ Ran(t, "compile") /\ th[t].calls # <<>>
    /\ th[t].outcome.kind = "returned"

\* the calls of evaluate_expression that are over: the finished ones and
\* those whose response is being made
Observed ==
  seen \cup {Observation(t) : t \in {u \in Threads : Left(u) /\ Ran(u, "call")}}

\* C10: two calls with the same expression string have the same outcome,
\* whatever ran before them and however they interleave.
C10_SameStringSameOutcome ==
  \A a, b \in Observed : a.expression = b.expression => a.outcome = b.outcome

\* both threads have evaluated `pi` at once, after earlier calls with `pi`
\* and with another string
C10_Witness ==
  /\ \A t \in Threads :
       th[t].pc = "done" /\ Ran(t, "eval") /\ th[t].expression = StrV(<<"pi">>)
  /\ \E a, b \in seen :
       a.expression = StrV(<<"pi">>) /\ b.expression # StrV(<<"pi">>)

====
